---- MODULE Spec2Model ----
(***************************************************************************)
(* Model of the pico-probe firmware: the Transport Context and its pins    *)
(* (src/src/dap.rs), the SWD transaction engine and the JTAG stub built on *)
(* it, the RTIC application that dispatches USB reports                    *)
(* (src/src/bin/pico-probe.rs), and the USB class that serves the          *)
(* Microsoft OS descriptors (src/src/winusb.rs).                           *)
(*                                                                         *)
(* A u32 data word is a sequence of 32 bits, bit i at index i + 1, since    *)
(* the shifts of read_data and send_data work at the full 32-bit width.    *)
(* A u8 is an integer taken modulo 256.                                    *)
(***************************************************************************)
EXTENDS Integers, Sequences, FiniteSets, TLC

VARIABLES
    context,    \* <<c>> while the Context is owned by no engine, else << >>
    swd,        \* <<c>> while Swd(Context) exists, else << >>
    jtag,       \* <<c>> while Jtag(Context) exists, else << >>
    ret,        \* the last operation: its name, its arguments, what it returned
                \* (entry: the mode of the data line when a transaction starts)
    wire,       \* the clock cycles of the last transaction, oldest first
    panicked,   \* TRUE once an operation has panicked (the firmware halts)
    pend,       \* the interrupts pending in the NVIC
    active,     \* the stack of running handlers, the one executing last
    usb,        \* on_usb: its position and the request it is handling
    led_pc,     \* led_blinker: its position
    ready,         \* the ready queue of led_blinker (capacity 1): how many spawned
    armed,      \* TRUE while led_blinker waits in the timer queue
    led,        \* the indicator pin
    rx,         \* the reports received by the USB peripheral, not yet taken
    arrived,    \* how many reports have arrived
    calls,      \* the calls of dap.process_command, oldest first
    replies,    \* the replies sent to the host, oldest first
    handled,    \* the requests on_usb has finished with, oldest first
    xfer        \* <<t>>: the last control-IN transfer given to control_in and
                \* what control_in did with it; << >> before the first

ctxvars == <<context, swd, jtag, ret, wire, panicked>>

appvars == <<pend, active, usb, led_pc, ready, armed, led, rx, arrived, calls,
             replies, handled>>

usbvars == <<xfer>>

vars == <<context, swd, jtag, ret, wire, panicked, pend, active, usb, led_pc,
          ready, armed, led, rx, arrived, calls, replies, handled, xfer>>

----------------------------------------------------------------------------
(* Bounds and input sets *)

\* how many of the words of WordList the target may send or the host write
NumWords == 3

\* the host clock frequencies from_pins is called with
CpuFrequencies == {50000, 125000000}

\* the frequencies the host requests from set_clock
RequestedHz == {0, 100000, 1000000, 125000000, 200000000}

Bit == {0, 1}

BitIndex == 0..31

\* the u32 whose set bits are exactly the positions in s
Word(s) == [k \in 1..32 |-> IF (k - 1) \in s THEN 1 ELSE 0]

\* 0x00000001, 0xDEADBEEF, 0x80000000, 0x00000000, 0xFFFFFFFF, 0x80000001
WordList ==
    << Word({0}),
       Word({0, 1, 2, 3, 5, 6, 7, 9, 10, 11, 12, 13, 15, 16, 18, 19, 21, 23,
             25, 26, 27, 28, 30, 31}),
       Word({31}),
       Word({}),
       Word(BitIndex),
       Word({0, 31}) >>

Words == {WordList[k] : k \in 1..(IF NumWords < Len(WordList) THEN NumWords ELSE Len(WordList))}

----------------------------------------------------------------------------
(* rp2040-hal DynPin, as dap.rs uses it: a mode and the output latch.      *)
(* set_high / set_low return Err on a pin that is not an output and        *)
(* is_high returns Err on a pin that is not an input; dap.rs discards the  *)
(* Err with .ok() and matches!(.., Ok(true)).                              *)

PinModes == {"FloatingDisabled", "FloatingInput", "PushPullOutput"}

into_floating_disabled(pin) == [pin EXCEPT !.mode = "FloatingDisabled"]

into_floating_input(pin) == [pin EXCEPT !.mode = "FloatingInput"]

into_push_pull_output(pin) == [pin EXCEPT !.mode = "PushPullOutput"]

\* pin.set_state(level).ok(), set_high().ok(), set_low().ok()
set_state(pin, level) ==
    IF pin.mode = "PushPullOutput" THEN [pin EXCEPT !.level = level] ELSE pin

\* matches!(pin.is_high(), Ok(true)) as u8, the line being at level `line`
is_high(pin, line) == IF pin.mode = "FloatingInput" THEN line ELSE 0

----------------------------------------------------------------------------
(* Context *)

from_pins(swdio, swclk, nreset, cpu_frequency) ==
    [ max_frequency     |-> 100000,
      cpu_frequency     |-> cpu_frequency,
      cycles_per_us     |-> cpu_frequency \div 1000000,
      half_period_ticks |-> (cpu_frequency \div 100000) \div 2,
      swdio             |-> swdio,
      swclk             |-> swclk,
      nreset            |-> nreset ]

\* set_clock accepting max_frequency = cpu_frequency as well
Context_set_clock_le(c, max_frequency) ==
    IF max_frequency <= c.cpu_frequency /\ max_frequency # 0
    THEN [c |-> [c EXCEPT !.max_frequency = max_frequency,
                          !.half_period_ticks =
                              (c.cpu_frequency \div max_frequency) \div 2],
          value |-> TRUE, panic |-> FALSE]
    ELSE [c |-> c, value |-> FALSE, panic |-> FALSE]

\* Context::set_clock: the new Context, the value returned, and whether the
\* division by self.max_frequency panicked (max_frequency is assigned first)
Context_set_clock(c, max_frequency) ==
    IF max_frequency < c.cpu_frequency
    THEN IF max_frequency = 0
         THEN [c |-> [c EXCEPT !.max_frequency = max_frequency],
               value |-> FALSE, panic |-> TRUE]
         ELSE [c |-> [c EXCEPT !.max_frequency = max_frequency,
                               !.half_period_ticks =
                                   (c.cpu_frequency \div max_frequency) \div 2],
               value |-> TRUE, panic |-> FALSE]
    ELSE [c |-> c, value |-> FALSE, panic |-> FALSE]

\* Swd::new
Swd_new(c) ==
    [c EXCEPT !.swdio = into_push_pull_output(@),
              !.swclk = into_push_pull_output(@)]

\* Swd::release floating the clock line only
Swd_release_clock_only(c) ==
    [c EXCEPT !.swclk = into_floating_input(@)]

\* Swd::release
Swd_release(c) ==
    [c EXCEPT !.swclk = into_floating_input(@),
              !.swdio = into_floating_input(@)]

\* Jtag::new
Jtag_new(c) == c

\* Jtag::release
Jtag_release(c) == c

TurnaroundPeriods == {"Cycles1", "Cycles2", "Cycles3", "Cycles4"}

DataPhases == {"NoDataPhase", "AlwaysDataPhase"}

\* configure accepting whatever has one of the two values right
configure_either(period, data_phase) ==
    period = "Cycles1" \/ data_phase = "NoDataPhase"

\* Swd::configure
configure(period, data_phase) ==
    period = "Cycles1" /\ data_phase = "NoDataPhase"

----------------------------------------------------------------------------
(* <Context as DapContext> and <Context as Swj>: the line-level operations *)

\* DapContext::high_impedance_mode
high_impedance_mode(c) ==
    [c EXCEPT !.swdio  = into_floating_disabled(@),
              !.swclk  = into_floating_disabled(@),
              !.nreset = into_floating_disabled(@)]

\* the flags of swj::Pins the firmware uses; a swj::Pins value is a set of them
PinNames == {"SWCLK", "SWDIO", "NRESET"}

PinSets == SUBSET PinNames

\* the settle times the host asks for, in microseconds (as u32; the product
\* cycles_per_us * wait_us of these stays below 2^31)
WaitUs == {0, 1000}

\* the lines the board holds high while pins samples them
LineLevels == { {}, {"SWDIO"}, {"SWCLK", "NRESET"}, PinNames }

\* pin.set_state(if output.contains(flag) { High } else { Low }).ok()
level_of(output, flag) == IF flag \in output THEN 1 ELSE 0

\* Swj::pins driving a masked reset line push-pull at the requested level
pins_push_pull_reset(c, output, mask, wait_us, line) ==
    LET c1 == IF "SWCLK" \in mask
              THEN [c EXCEPT !.swclk = set_state(into_push_pull_output(@),
                                                 level_of(output, "SWCLK"))]
              ELSE c
        c2 == IF "SWDIO" \in mask
              THEN [c1 EXCEPT !.swdio = set_state(into_push_pull_output(@),
                                                  level_of(output, "SWDIO"))]
              ELSE c1
        c3 == IF "NRESET" \in mask
              THEN [c2 EXCEPT !.nreset = set_state(into_push_pull_output(@),
                                                   level_of(output, "NRESET"))]
              ELSE c2
        c4 == [c3 EXCEPT !.swclk  = into_floating_input(@),
                         !.swdio  = into_floating_input(@),
                         !.nreset = into_floating_input(@)]
    IN  [c      |-> c4,
         settle |-> c3,
         delay  |-> c.cycles_per_us * wait_us,
         value  |-> {f \in PinNames :
                       is_high(CASE f = "SWCLK" -> c4.swclk
                                 [] f = "SWDIO" -> c4.swdio
                                 [] OTHER       -> c4.nreset,
                               level_of(line, f)) = 1}]

\* Swj::pins. line: the lines held high when the pins are sampled. Returns
\* the Context, the Context as it is during the settle delay, the cycles of
\* that delay and the swj::Pins returned.
pins(c, output, mask, wait_us, line) ==
    LET c1 == IF "SWCLK" \in mask
              THEN [c EXCEPT !.swclk = set_state(into_push_pull_output(@),
                                                 level_of(output, "SWCLK"))]
              ELSE c
        c2 == IF "SWDIO" \in mask
              THEN [c1 EXCEPT !.swdio = set_state(into_push_pull_output(@),
                                                  level_of(output, "SWDIO"))]
              ELSE c1
        c3 == IF "NRESET" \in mask
              THEN IF "NRESET" \in output
                   THEN [c2 EXCEPT !.nreset = into_floating_disabled(@)]
                   ELSE [c2 EXCEPT !.nreset = set_state(into_push_pull_output(@), 0)]
              ELSE c2
        c4 == [c3 EXCEPT !.swclk  = into_floating_input(@),
                         !.swdio  = into_floating_input(@),
                         !.nreset = into_floating_input(@)]
    IN  [c      |-> c4,
         settle |-> c3,
         delay  |-> c.cycles_per_us * wait_us,
         value  |-> {f \in PinNames :
                       is_high(CASE f = "SWCLK" -> c4.swclk
                                 [] f = "SWDIO" -> c4.swdio
                                 [] OTHER       -> c4.nreset,
                               level_of(line, f)) = 1}]

\* how many bytes the data of Swj::sequence holds at most
MaxBytes == 2

\* the bytes of the sequences: 0x9E and 0xE7 (the JTAG-to-SWD switch), 0x00
SequenceBytes == {158, 231, 0}

RECURSIVE SeqsOfLen(_)
SeqsOfLen(n) ==
    IF n = 0 THEN { << >> }
    ELSE { Append(d, b) : d \in SeqsOfLen(n - 1), b \in SequenceBytes }

\* data: &[u8]
SequenceData == UNION { SeqsOfLen(n) : n \in 0..MaxBytes }

\* bits: usize, from none to more than the data holds
BitCounts == 0..(8 * MaxBytes + 1)

(* Swj::sequence. s = [c |-> the Context, wire |-> the events so far]; an   *)
(* event is a write to a pin (the pin, its mode, the level it latches) or   *)
(* a delay (its length in cycles).                                          *)

\* the body of `for _ in 0..frame_bits`, bit = byte & 1
sequence_bit(s, bit) ==
    LET dio  == set_state(s.c.swdio, IF bit # 0 THEN 1 ELSE 0)
        low  == set_state(s.c.swclk, 0)
        high == set_state(low, 1)
        half_period_ticks == s.c.half_period_ticks
    IN  [c    |-> [s.c EXCEPT !.swdio = dio, !.swclk = high],
         wire |-> s.wire \o
                  << [ev |-> "swdio", mode |-> dio.mode, level |-> dio.level],
                     [ev |-> "swclk", mode |-> low.mode, level |-> low.level],
                     [ev |-> "delay", ticks |-> half_period_ticks],
                     [ev |-> "swclk", mode |-> high.mode, level |-> high.level],
                     [ev |-> "delay", ticks |-> half_period_ticks] >>]

RECURSIVE frame_loop(_)
\* for _ in 0..frame_bits { let bit = byte & 1; byte >>= 1; .. }
frame_loop(l) ==
    IF l.n = 0
    THEN l.s
    ELSE frame_loop([s    |-> sequence_bit(l.s, l.byte % 2),
                     byte |-> l.byte \div 2,
                     n    |-> l.n - 1])

RECURSIVE byte_loop_all(_)
\* the loop over the bytes without `bits -= frame_bits`
byte_loop_all(l) ==
    IF l.data = << >>
    THEN l.s
    ELSE LET frame_bits == IF l.bits < 8 THEN l.bits ELSE 8
         IN  byte_loop_all([s    |-> frame_loop([s    |-> l.s,
                                                 byte |-> Head(l.data),
                                                 n    |-> frame_bits]),
                            data |-> Tail(l.data),
                            bits |-> l.bits])

RECURSIVE byte_loop(_)
\* for byte in data { let frame_bits = min(bits, 8); ..; bits -= frame_bits }
byte_loop(l) ==
    IF l.data = << >>
    THEN l.s
    ELSE LET frame_bits == IF l.bits < 8 THEN l.bits ELSE 8
         IN  byte_loop([s    |-> frame_loop([s    |-> l.s,
                                             byte |-> Head(l.data),
                                             n    |-> frame_bits]),
                        data |-> Tail(l.data),
                        bits |-> l.bits - frame_bits])

\* Swj::sequence keeping both lines as outputs on return
sequence_no_release(c, data, bits) ==
    byte_loop([s    |-> [c    |-> [c EXCEPT !.swdio = into_push_pull_output(@),
                                            !.swclk = into_push_pull_output(@)],
                         wire |-> << >>],
               data |-> data,
               bits |-> bits])

\* Swj::sequence
sequence(c, data, bits) ==
    LET s == byte_loop([s    |-> [c    |-> [c EXCEPT
                                             !.swdio = into_push_pull_output(@),
                                             !.swclk = into_push_pull_output(@)],
                                  wire |-> << >>],
                        data |-> data,
                        bits |-> bits])
    IN  [s EXCEPT !.c.swclk = into_floating_input(@),
                  !.c.swdio = into_floating_input(@)]

----------------------------------------------------------------------------
(* dap_rs::swd, as dap.rs calls it *)

APnDPs == {"DP", "AP"}

DPRegisters == 0..3

\* the (APnDP, register) pairs the transactions are issued with
Requests == { <<"DP", 0>>, <<"AP", 3>> }

\* swd::make_request: start bit, APnDP, RnW, A[2:3], parity, stop, park
make_request(apndp, rnw, a) ==
    LET req == 1 + (IF apndp = "AP" THEN 2 ELSE 0)
                 + (IF rnw = "R" THEN 4 ELSE 0) + a * 8 + 128
        ones == 2 + (IF apndp = "AP" THEN 1 ELSE 0)
                  + (IF rnw = "R" THEN 1 ELSE 0) + (a % 2) + (a \div 2)
    IN  req + (ones % 2) * 32

\* swd::Ack::try_ok: Ok = 0b001, Wait = 0b010, Fault = 0b100
try_ok(ack) ==
    CASE ack = 1 -> "Ok"
      [] ack = 2 -> "AckWait"
      [] ack = 4 -> "AckFault"
      [] OTHER   -> "AckUnknown"

----------------------------------------------------------------------------
(* u32 arithmetic on bit vectors *)

\* data |= bit (bit is 0 or 1)
or_bit(data, bit) == [data EXCEPT ![1] = IF bit = 1 THEN 1 ELSE @]

\* data <<= 1 on a u32: bit 31 is shifted out
shl1(data) == << 0 >> \o SubSeq(data, 1, 31)

\* data >>= 1 on a u32
shr1(data) == Tail(data) \o << 0 >>

\* u32::count_ones
count_ones(data) == Cardinality({k \in 1..32 : data[k] = 1})

----------------------------------------------------------------------------
(* The bit routines of Swd. s = [c |-> the Context, wire |-> the cycles    *)
(* clocked so far]; every clock cycle appends what the data pin was doing: *)
(* its mode, and the level latched (write_bit) or sampled (read_bit).      *)

write_bit(s, bit) ==
    LET dio == set_state(s.c.swdio, IF bit # 0 THEN 1 ELSE 0)
        clk == set_state(set_state(s.c.swclk, 0), 1)
    IN  [c    |-> [s.c EXCEPT !.swdio = dio, !.swclk = clk],
         wire |-> Append(s.wire, [op |-> "write_bit", mode |-> dio.mode,
                                  level |-> dio.level, clk |-> clk.mode])]

\* line: the level the target holds the data line at during this cycle
read_bit(s, line) ==
    LET clk == set_state(set_state(s.c.swclk, 0), 1)
        bit == is_high(s.c.swdio, line)
    IN  [s   |-> [c    |-> [s.c EXCEPT !.swclk = clk],
                  wire |-> Append(s.wire, [op |-> "read_bit",
                                           mode |-> s.c.swdio.mode,
                                           level |-> bit, clk |-> clk.mode])],
         bit |-> bit]

idle_low(s) == write_bit(write_bit(write_bit(write_bit(s, 0), 0), 0), 0)

(* The loops. Each takes its loop variables as one record: s, the data     *)
(* being shifted, and what is left to do (n iterations, or the levels of   *)
(* the cycles still to sample).                                            *)

RECURSIVE tx_loop(_)
\* for _ in 0..n { write_bit(data & 1); data >>= 1 } on a u8
tx_loop(l) ==
    IF l.n = 0
    THEN l.s
    ELSE tx_loop([s    |-> write_bit(l.s, l.data % 2),
                  data |-> l.data \div 2,
                  n    |-> l.n - 1])

\* tx8 without the switch of the data line to push-pull output
tx8_keep_mode(s, data) ==
    tx_loop([s |-> s, data |-> data, n |-> 8])

tx8(s, data) ==
    tx_loop([s    |-> [s EXCEPT !.c.swdio = into_push_pull_output(@)],
             data |-> data, n |-> 8])

\* data |= bit & 1 on a u8
or_u8(data, bit) == IF data % 2 = 1 THEN data ELSE data + (bit % 2)

RECURSIVE rx_loop(_)
\* for _ in 0..Len(line) { data |= read_bit() & 1; data <<= 1 } on a u8
rx_loop(l) ==
    IF l.line = << >>
    THEN [s |-> l.s, data |-> l.data]
    ELSE LET r == read_bit(l.s, Head(l.line))
         IN  rx_loop([s    |-> r.s,
                      data |-> (or_u8(l.data, r.bit) * 2) % 256,
                      line |-> Tail(l.line)])

\* line: the levels of the 4 cycles
rx4(s, line) ==
    rx_loop([s    |-> [s EXCEPT !.c.swdio = into_floating_input(@)],
             data |-> 0, line |-> SubSeq(line, 1, 4)])

\* line: the levels of the 5 cycles
rx5(s, line) ==
    rx_loop([s    |-> [s EXCEPT !.c.swdio = into_floating_input(@)],
             data |-> 0, line |-> SubSeq(line, 1, 5)])

\* line: the levels of the 8 cycles
rx8(s, line) ==
    rx_loop([s    |-> [s EXCEPT !.c.swdio = into_floating_input(@)],
             data |-> 0, line |-> SubSeq(line, 1, 8)])

RECURSIVE send_loop(_)
\* for _ in 0..n { write_bit((data & 1) as u8); data >>= 1 } on a u32
send_loop(l) ==
    IF l.n = 0
    THEN l.s
    ELSE send_loop([s    |-> write_bit(l.s, l.data[1]),
                    data |-> shr1(l.data),
                    n    |-> l.n - 1])

send_data(s, data, parity) ==
    write_bit(send_loop([s    |-> [s EXCEPT !.c.swdio = into_push_pull_output(@)],
                         data |-> data, n |-> 32]),
              parity)

RECURSIVE read_loop(_)
\* for _ in 0..Len(line) { data |= (read_bit() & 1) as u32; data <<= 1 }
read_loop(l) ==
    IF l.line = << >>
    THEN [s |-> l.s, data |-> l.data]
    ELSE LET r == read_bit(l.s, Head(l.line))
         IN  read_loop([s    |-> r.s,
                        data |-> shl1(or_bit(l.data, r.bit)),
                        line |-> Tail(l.line)])

\* line: the levels of the 33 cycles (32 data bits, then the parity bit)
read_data(s, line) ==
    LET d == read_loop([s    |-> [s EXCEPT !.c.swdio = into_floating_input(@)],
                        data |-> Word({}), line |-> SubSeq(line, 1, 32)])
        p == read_bit(d.s, line[33])
    IN  [s |-> p.s, data |-> d.data, parity |-> p.bit]

----------------------------------------------------------------------------
(* The two transactions. line: the level of the data line, as the target   *)
(* holds it, in each cycle the probe samples.                              *)

read_inner(c, apndp, a, line) ==
    LET s1  == tx8([c |-> c, wire |-> << >>], make_request(apndp, "R", a))
        r4  == rx4(s1, SubSeq(line, 1, 4))
        ack == r4.data \div 2
    IN  IF try_ok(ack) # "Ok"
        THEN [s |-> idle_low(r4.s), kind |-> try_ok(ack), data |-> Word({})]
        ELSE LET rd == read_data(r4.s, SubSeq(line, 5, 37))
                 r8 == rx8(rd.s, SubSeq(line, 38, 45))
                 s  == write_bit(r8.s, 0)
             IN  IF rd.parity = count_ones(rd.data) % 2
                 THEN [s |-> s, kind |-> "Ok", data |-> rd.data]
                 ELSE [s |-> s, kind |-> "BadParity", data |-> Word({})]

write_inner(c, apndp, a, data, line) ==
    LET s1  == tx8([c |-> c, wire |-> << >>], make_request(apndp, "W", a))
        r5  == rx5(s1, SubSeq(line, 1, 5))
        ack == (r5.data \div 2) % 8
    IN  IF try_ok(ack) # "Ok"
        THEN [s |-> idle_low(r5.s), kind |-> try_ok(ack)]
        ELSE LET parity == count_ones(data) % 2
             IN  [s |-> tx8(send_data(r5.s, data, parity), 0), kind |-> "Ok"]

----------------------------------------------------------------------------
(* The target. It answers a request with a turnaround bit and a 3-bit ACK  *)
(* sent least-significant bit first (OK = 0b001, WAIT = 0b010,             *)
(* FAULT = 0b100); after a read it sends a word, least-significant bit     *)
(* first, and a parity bit.                                                *)

AckCodes == [OK |-> 1, WAIT |-> 2, FAULT |-> 4]

\* the 3-bit codes a probe may sample in the ACK slot
AckValues == 0..7

\* the sets of data-bit positions corrupted on the line
Flips == { {}, {0}, {16}, {31} }

\* the word w as it arrives with the positions in flip inverted
corrupt(w, flip) == [k \in 1..32 |-> IF (k - 1) \in flip THEN 1 - w[k] ELSE w[k]]

ack_bits(ack) == << ack % 2, (ack \div 2) % 2, ack \div 4 >>

\* the levels of the 45 cycles a read may sample: turnaround, ACK, the
\* data, the parity bit, and the 8 trailing cycles (line at rest, low)
read_line(t) ==
    << t.turn >> \o ack_bits(t.ack)
       \o corrupt(t.word, t.flip)
       \o << t.parity >> \o [k \in 1..8 |-> 0]

\* the levels of the 5 cycles a write samples
write_line(t) == << t.turn >> \o ack_bits(t.ack) \o << t.turn2 >>

\* what the target may answer to a read. The data phase is enumerated where
\* the target sends one (ACK OK) and where the probe samples one.
ReadTargets ==
    { [turn |-> tn, ack |-> k, word |-> w, flip |-> f, parity |-> p] :
         tn \in Bit, k \in {1}, w \in Words, f \in Flips, p \in Bit }
    \cup
    { [turn |-> 0, ack |-> k, word |-> w, flip |-> f, parity |-> p] :
         k \in {4}, w \in Words, f \in Flips, p \in Bit }
    \cup
    { [turn |-> tn, ack |-> k, word |-> Word({}), flip |-> {}, parity |-> 0] :
         tn \in Bit, k \in AckValues \ {1} }

WriteTargets == [turn : Bit, ack : AckValues, turn2 : Bit]

\* the words written against the answer t: every word where the target
\* acknowledges with OK or the probe goes on to the data phase, one otherwise
WriteWords(t) ==
    IF t.ack = 1 \/ (t.ack \div 2 = 0 /\ t.turn2 = 1)
    THEN Words ELSE {WordList[1]}

----------------------------------------------------------------------------
(* Initial state: Context::from_pins on three pins in some mode *)

ContextInit ==
    /\ \E cpu \in CpuFrequencies, m \in PinModes :
          LET pin == [mode |-> m, level |-> 0]
          IN  context = << from_pins(pin, pin, pin, cpu) >>
    /\ swd = << >>
    /\ jtag = << >>
    /\ ret = [op |-> "from_pins"]
    /\ wire = << >>
    /\ panicked = FALSE

----------------------------------------------------------------------------
(* One call at a time: ret and wire describe the call that has just        *)
(* returned, until its caller (dap_rs::dap::Dap, or setup for from_pins)   *)
(* has taken the value. A panic never returns.                             *)

Idle == ~panicked /\ ret.op = "none"

Return ==
    /\ ~panicked
    /\ ret.op # "none"
    /\ ret' = [op |-> "none"]
    /\ wire' = << >>
    /\ UNCHANGED <<context, swd, jtag, panicked>>
    /\ UNCHANGED appvars
    /\ UNCHANGED usbvars

----------------------------------------------------------------------------
(* Ownership of the Context: new takes it by value, release gives it back *)

\* Swd::new on a Context that is copied, not moved
SwdNewCopies ==
    /\ Idle
    /\ context # << >>
    /\ swd' = << Swd_new(context[1]) >>
    /\ ret' = [op |-> "Swd::new"]
    /\ wire' = << >>
    /\ UNCHANGED <<context, jtag, panicked>>
    /\ UNCHANGED appvars
    /\ UNCHANGED usbvars

SwdNew ==
    /\ Idle
    /\ context # << >>
    /\ swd' = << Swd_new(context[1]) >>
    /\ context' = << >>
    /\ ret' = [op |-> "Swd::new"]
    /\ wire' = << >>
    /\ UNCHANGED <<jtag, panicked>>
    /\ UNCHANGED appvars
    /\ UNCHANGED usbvars

SwdRelease ==
    /\ Idle
    /\ swd # << >>
    /\ context' = << Swd_release(swd[1]) >>
    /\ swd' = << >>
    /\ ret' = [op |-> "Swd::release"]
    /\ wire' = << >>
    /\ UNCHANGED <<jtag, panicked>>
    /\ UNCHANGED appvars
    /\ UNCHANGED usbvars

JtagNew ==
    /\ Idle
    /\ context # << >>
    /\ jtag' = << Jtag_new(context[1]) >>
    /\ context' = << >>
    /\ ret' = [op |-> "Jtag::new"]
    /\ wire' = << >>
    /\ UNCHANGED <<swd, panicked>>
    /\ UNCHANGED appvars
    /\ UNCHANGED usbvars

JtagRelease ==
    /\ Idle
    /\ jtag # << >>
    /\ context' = << Jtag_release(jtag[1]) >>
    /\ jtag' = << >>
    /\ ret' = [op |-> "Jtag::release"]
    /\ wire' = << >>
    /\ UNCHANGED <<swd, panicked>>
    /\ UNCHANGED appvars
    /\ UNCHANGED usbvars

----------------------------------------------------------------------------
(* The line-level operations, on a Context no engine owns: Swd and Jtag     *)
(* keep theirs in a private field and give it back only in release.        *)

\* DapContext::high_impedance_mode
HighImpedanceMode ==
    /\ Idle
    /\ context # << >>
    /\ context' = << high_impedance_mode(context[1]) >>
    /\ ret' = [op |-> "high_impedance_mode"]
    /\ wire' = << >>
    /\ UNCHANGED <<swd, jtag, panicked>>
    /\ UNCHANGED appvars
    /\ UNCHANGED usbvars

\* Swj::pins
SwjPins ==
    /\ Idle
    /\ context # << >>
    /\ \E output \in PinSets, mask \in PinSets, wait_us \in WaitUs,
          line \in LineLevels :
          LET r == pins(context[1], output, mask, wait_us, line)
          IN  /\ context' = << r.c >>
              /\ ret' = [op |-> "pins", output |-> output, mask |-> mask,
                         wait_us |-> wait_us, line |-> line,
                         settle |-> r.settle, delay |-> r.delay,
                         value |-> r.value]
    /\ wire' = << >>
    /\ UNCHANGED <<swd, jtag, panicked>>
    /\ UNCHANGED appvars
    /\ UNCHANGED usbvars

\* Swj::sequence
SwjSequence ==
    /\ Idle
    /\ context # << >>
    /\ \E data \in SequenceData, bits \in BitCounts :
          LET r == sequence(context[1], data, bits)
          IN  /\ context' = << r.c >>
              /\ wire' = r.wire
              /\ ret' = [op |-> "sequence", data |-> data, bits |-> bits]
    /\ UNCHANGED <<swd, jtag, panicked>>
    /\ UNCHANGED appvars
    /\ UNCHANGED usbvars

----------------------------------------------------------------------------
(* Clock negotiation *)

\* <Context as Swj>::set_clock, on a Context no engine owns
ContextSetClock ==
    /\ Idle
    /\ context # << >>
    /\ \E hz \in RequestedHz :
          LET r == Context_set_clock(context[1], hz)
          IN  /\ context' = << r.c >>
              /\ panicked' = r.panic
              /\ ret' = [op |-> "set_clock", via |-> "Context", hz |-> hz,
                         value |-> r.value]
    /\ wire' = << >>
    /\ UNCHANGED <<swd, jtag>>
    /\ UNCHANGED appvars
    /\ UNCHANGED usbvars

\* Swd::set_clock
SwdSetClock ==
    /\ Idle
    /\ swd # << >>
    /\ \E hz \in RequestedHz :
          LET r == Context_set_clock(swd[1], hz)
          IN  /\ swd' = << r.c >>
              /\ panicked' = r.panic
              /\ ret' = [op |-> "set_clock", via |-> "Swd", hz |-> hz,
                         value |-> r.value]
    /\ wire' = << >>
    /\ UNCHANGED <<context, jtag>>
    /\ UNCHANGED appvars
    /\ UNCHANGED usbvars

\* Jtag::set_clock
JtagSetClock ==
    /\ Idle
    /\ jtag # << >>
    /\ \E hz \in RequestedHz :
          LET r == Context_set_clock(jtag[1], hz)
          IN  /\ jtag' = << r.c >>
              /\ panicked' = r.panic
              /\ ret' = [op |-> "set_clock", via |-> "Jtag", hz |-> hz,
                         value |-> r.value]
    /\ wire' = << >>
    /\ UNCHANGED <<context, swd>>
    /\ UNCHANGED appvars
    /\ UNCHANGED usbvars

\* Swd::configure
SwdConfigure ==
    /\ Idle
    /\ swd # << >>
    /\ \E period \in TurnaroundPeriods, data_phase \in DataPhases :
          ret' = [op |-> "configure", period |-> period,
                  data_phase |-> data_phase,
                  value |-> configure(period, data_phase)]
    /\ wire' = << >>
    /\ UNCHANGED <<context, swd, jtag, panicked>>
    /\ UNCHANGED appvars
    /\ UNCHANGED usbvars

----------------------------------------------------------------------------
(* Transactions *)

\* Swd::read_inner
SwdRead ==
    /\ Idle
    /\ swd # << >>
    /\ \E rq \in Requests, t \in ReadTargets :
          LET r == read_inner(swd[1], rq[1], rq[2], read_line(t))
          IN  /\ swd' = << r.s.c >>
              /\ wire' = r.s.wire
              /\ ret' = [op |-> "read_inner", apndp |-> rq[1], a |-> rq[2],
                         entry |-> swd[1].swdio.mode,
                         target |-> t, kind |-> r.kind, data |-> r.data]
    /\ UNCHANGED <<context, jtag, panicked>>
    /\ UNCHANGED appvars
    /\ UNCHANGED usbvars

\* Swd::write_inner
SwdWrite ==
    /\ Idle
    /\ swd # << >>
    /\ \E rq \in Requests, t \in WriteTargets : \E data \in WriteWords(t) :
          LET r == write_inner(swd[1], rq[1], rq[2], data, write_line(t))
          IN  /\ swd' = << r.s.c >>
              /\ wire' = r.s.wire
              /\ ret' = [op |-> "write_inner", apndp |-> rq[1], a |-> rq[2],
                         entry |-> swd[1].swdio.mode,
                         word |-> data, target |-> t, kind |-> r.kind]
    /\ UNCHANGED <<context, jtag, panicked>>
    /\ UNCHANGED appvars
    /\ UNCHANGED usbvars

----------------------------------------------------------------------------
(* The RTIC application (src/src/bin/pico-probe.rs) on the Cortex-M0+ NVIC. *)
(* on_usb is bound to USBCTRL_IRQ; led_blinker is a software task run by    *)
(* the dispatcher XIP_IRQ; spawn_after goes through the timer queue of the  *)
(* monotonic, bound to TIMER_IRQ_0.                                         *)

\* how many reports the host sends
MaxReports == 2

Irqs == {"USBCTRL_IRQ", "XIP_IRQ", "TIMER_IRQ_0"}

RequestKinds == {"DAP1Command", "DAP2Command", "Suspend"}

\* the received lengths n of a report
ReportLens == {1, 64}

\* the lengths process_command may return (resp_buf holds 64 bytes)
RespLens == {0, 1, 64}

\* on_usb given a priority above the default
PriorityUsbAbove(irq) == IF irq = "USBCTRL_IRQ" THEN 2 ELSE 1

\* no task names a priority: each runs at the default, 1, and so does the
\* handler of the timer queue that schedules led_blinker
Priority(irq) == 1

Top == active[Len(active)]

\* the NVIC starts a pending handler when nothing runs, or when it has a
\* higher priority than the handler that runs
CanTake(irq) ==
    /\ irq \in pend
    /\ IF active = << >> THEN TRUE ELSE Priority(irq) > Priority(Top)

Running(irq) == active # << >> /\ Top = irq

Pop == SubSeq(active, 1, Len(active) - 1)

\* init: led_blinker::spawn().ok(), then interrupts are enabled
AppInit ==
    /\ pend = {"XIP_IRQ"}
    /\ active = << >>
    /\ usb = [pc |-> "idle"]
    /\ led_pc = "idle"
    /\ ready = 1
    /\ armed = FALSE
    /\ led = FALSE
    /\ rx = << >>
    /\ arrived = 0
    /\ calls = << >>
    /\ replies = << >>
    /\ handled = << >>

\* the host sends a report: the peripheral raises USBCTRL_IRQ
UsbReport ==
    /\ arrived < MaxReports
    /\ \E kind \in RequestKinds, n \in ReportLens :
          rx' = Append(rx, [id |-> arrived + 1, kind |-> kind,
                            n |-> IF kind = "Suspend" THEN 0 ELSE n])
    /\ arrived' = arrived + 1
    /\ pend' = pend \cup {"USBCTRL_IRQ"}
    /\ UNCHANGED <<active, usb, led_pc, ready, armed, led, calls, replies, handled>>
    /\ UNCHANGED ctxvars
    /\ UNCHANGED usbvars

\* bus activity that carries no report raises USBCTRL_IRQ as well
UsbActivity ==
    /\ "USBCTRL_IRQ" \notin pend
    /\ pend' = pend \cup {"USBCTRL_IRQ"}
    /\ UNCHANGED <<active, usb, led_pc, ready, armed, led, rx, arrived, calls,
                   replies, handled>>
    /\ UNCHANGED ctxvars
    /\ UNCHANGED usbvars

\* the 500 ms of spawn_after are over: the monotonic raises TIMER_IRQ_0
TimerExpire ==
    /\ armed
    /\ "TIMER_IRQ_0" \notin pend
    /\ pend' = pend \cup {"TIMER_IRQ_0"}
    /\ UNCHANGED <<active, usb, led_pc, ready, armed, led, rx, arrived, calls,
                   replies, handled>>
    /\ UNCHANGED ctxvars
    /\ UNCHANGED usbvars

\* the timer queue handler: led_blinker is due, it goes to the ready queue
\* and the dispatcher is pended
TimerQueue ==
    /\ CanTake("TIMER_IRQ_0")
    /\ pend' = (pend \ {"TIMER_IRQ_0"}) \cup (IF armed THEN {"XIP_IRQ"} ELSE {})
    /\ ready' = IF armed THEN 1 ELSE ready
    /\ armed' = FALSE
    /\ UNCHANGED <<active, usb, led_pc, led, rx, arrived, calls, replies, handled>>
    /\ UNCHANGED ctxvars
    /\ UNCHANGED usbvars

\* the dispatcher takes led_blinker from the ready queue and calls it
Dispatch ==
    /\ CanTake("XIP_IRQ")
    /\ ready > 0
    /\ pend' = pend \ {"XIP_IRQ"}
    /\ active' = Append(active, "XIP_IRQ")
    /\ ready' = ready - 1
    /\ led_pc' = "toggle"
    /\ UNCHANGED <<usb, armed, led, rx, arrived, calls, replies, handled>>
    /\ UNCHANGED ctxvars
    /\ UNCHANGED usbvars

\* cx.local.led.toggle().ok()
LedToggle ==
    /\ Running("XIP_IRQ")
    /\ led_pc = "toggle"
    /\ led' = ~led
    /\ led_pc' = "voltage"
    /\ UNCHANGED <<pend, active, usb, ready, armed, rx, arrived, calls, replies, handled>>
    /\ UNCHANGED ctxvars
    /\ UNCHANGED usbvars

\* cx.local.adc.voltage() and the log line
LedVoltage ==
    /\ Running("XIP_IRQ")
    /\ led_pc = "voltage"
    /\ led_pc' = "spawn_after"
    /\ UNCHANGED <<pend, active, usb, ready, armed, led, rx, arrived, calls, replies,
                   handled>>
    /\ UNCHANGED ctxvars
    /\ UNCHANGED usbvars

\* led_blinker::spawn_after(500.millis()).ok(), and the task returns
LedSpawnAfter ==
    /\ Running("XIP_IRQ")
    /\ led_pc = "spawn_after"
    /\ armed' = TRUE
    /\ led_pc' = "idle"
    /\ active' = Pop
    /\ UNCHANGED <<pend, usb, ready, led, rx, arrived, calls, replies, handled>>
    /\ UNCHANGED ctxvars
    /\ UNCHANGED usbvars

\* the NVIC starts on_usb
OnUsbEnter ==
    /\ CanTake("USBCTRL_IRQ")
    /\ pend' = pend \ {"USBCTRL_IRQ"}
    /\ active' = Append(active, "USBCTRL_IRQ")
    /\ usb' = [pc |-> "interrupt"]
    /\ UNCHANGED <<led_pc, ready, armed, led, rx, arrived, calls, replies, handled>>
    /\ UNCHANGED ctxvars
    /\ UNCHANGED usbvars

\* on_usb returns; USBCTRL_IRQ stays raised while a report waits
OnUsbExit(rest) ==
    /\ usb' = [pc |-> "idle"]
    /\ active' = Pop
    /\ pend' = IF rest # << >> THEN pend \cup {"USBCTRL_IRQ"} ELSE pend

\* probe_usb.interrupt(): the next request, if a report has been received
probe_usb_interrupt == IF rx = << >> THEN << >> ELSE << Head(rx) >>

\* if let Some(request) = probe_usb.interrupt() { match request { .. } }
OnUsbInterrupt ==
    /\ Running("USBCTRL_IRQ")
    /\ usb.pc = "interrupt"
    /\ LET request == probe_usb_interrupt
       IN  IF request = << >>
           THEN /\ OnUsbExit(rx)
                /\ UNCHANGED <<rx, handled>>
           ELSE /\ rx' = Tail(rx)
                /\ CASE request[1].kind = "DAP1Command" ->
                          \* the body of this arm is commented out
                          /\ handled' = Append(handled, request[1])
                          /\ OnUsbExit(Tail(rx))
                     [] request[1].kind = "DAP2Command" ->
                          /\ usb' = [pc |-> "process", request |-> request[1],
                                     version |-> "V2"]
                          /\ UNCHANGED <<pend, active, handled>>
                     [] request[1].kind = "Suspend" ->
                          \* dap.suspend()
                          /\ handled' = Append(handled, request[1])
                          /\ OnUsbExit(Tail(rx))
    /\ UNCHANGED <<led_pc, ready, armed, led, arrived, calls, replies>>
    /\ UNCHANGED ctxvars
    /\ UNCHANGED usbvars

\* let len = dap.process_command(&report[..n], resp_buf, DapVersion::V2);
\* without a reply (len = 0) on_usb returns
OnUsbProcess ==
    /\ Running("USBCTRL_IRQ")
    /\ usb.pc = "process"
    /\ \E len \in RespLens :
          /\ calls' = Append(calls, [id |-> usb.request.id, n |-> usb.request.n,
                                     version |-> usb.version, len |-> len])
          /\ IF len > 0
             THEN /\ usb' = [pc |-> "reply", request |-> usb.request,
                             version |-> usb.version, len |-> len]
                  /\ UNCHANGED <<pend, active, handled>>
             ELSE /\ handled' = Append(handled, usb.request)
                  /\ OnUsbExit(rx)
    /\ UNCHANGED <<led_pc, ready, armed, led, rx, arrived, replies>>
    /\ UNCHANGED ctxvars
    /\ UNCHANGED usbvars

\* probe_usb.dap2_reply(&resp_buf[..len]), and on_usb returns
OnUsbReply ==
    /\ Running("USBCTRL_IRQ")
    /\ usb.pc = "reply"
    /\ replies' = Append(replies, [id |-> usb.request.id, channel |-> "dap2",
                                   len |-> usb.len])
    /\ handled' = Append(handled, usb.request)
    /\ OnUsbExit(rx)
    /\ UNCHANGED <<led_pc, ready, armed, led, rx, arrived, calls>>
    /\ UNCHANGED ctxvars
    /\ UNCHANGED usbvars

AppNext ==
    \/ UsbReport
    \/ UsbActivity
    \/ TimerExpire
    \/ TimerQueue
    \/ Dispatch
    \/ LedToggle
    \/ LedVoltage
    \/ LedSpawnAfter
    \/ OnUsbEnter
    \/ OnUsbInterrupt
    \/ OnUsbProcess
    \/ OnUsbReply

----------------------------------------------------------------------------
(* MicrosoftDescriptors (src/src/winusb.rs), a usb_device UsbClass: the     *)
(* device hands every control-IN transfer to control_in, which may accept   *)
(* it, reject it, or leave it for the other classes and the device.         *)

VENDOR_ID == 66

DESCRIPTOR_SIZE == 168

\* control::RequestType
RequestTypes == {"Standard", "Class", "Vendor", "Reserved"}

\* req.request: u8
ControlRequests == {0, 1, 66, 67, 255}

\* req.index: u16
ControlIndexes == {0, 6, 7, 8, 65535}

\* req.value: u16
ControlValues == {0, 7}

\* the setup packets the host sends
ControlSetups ==
    [request_type : RequestTypes, request : ControlRequests,
     index : ControlIndexes, value : ControlValues]

\* control_in answering the identifying request whatever its index
control_in_any_index(req) ==
    IF req.request_type # "Vendor"
    THEN [done |-> "nothing", len |-> 0]
    ELSE IF req.request = VENDOR_ID
         THEN [done |-> "accept_with_static", len |-> DESCRIPTOR_SIZE]
         ELSE [done |-> "nothing", len |-> 0]

\* MicrosoftDescriptors::control_in: what it does with the transfer, and
\* the length of the data it accepts it with (MS_DESCRIPTOR)
control_in(req) ==
    IF req.request_type # "Vendor"
    THEN [done |-> "nothing", len |-> 0]
    ELSE IF req.request = VENDOR_ID
         THEN IF req.index = 7
              THEN [done |-> "accept_with_static", len |-> DESCRIPTOR_SIZE]
              ELSE [done |-> "reject", len |-> 0]
         ELSE [done |-> "nothing", len |-> 0]

UsbInit == xfer = << >>

\* the device gives a control-IN transfer to the class
ControlIn ==
    /\ \E req \in ControlSetups :
          xfer' = << [req |-> req, response |-> control_in(req)] >>
    /\ UNCHANGED ctxvars
    /\ UNCHANGED appvars

UsbNext == ControlIn

----------------------------------------------------------------------------

Init == ContextInit /\ AppInit /\ UsbInit

Next ==
    \/ Return
    \/ SwdNew
    \/ SwdRelease
    \/ JtagNew
    \/ JtagRelease
    \/ HighImpedanceMode
    \/ SwjPins
    \/ SwjSequence
    \/ ContextSetClock
    \/ SwdSetClock
    \/ JtagSetClock
    \/ SwdConfigure
    \/ SwdRead
    \/ SwdWrite

Spec == Init /\ [][Next]_vars

\* the application alone, on a Context that stays as from_pins made it
SpecApp == Init /\ [][AppNext]_vars

\* the control-IN transfers of the host alone
SpecUsb == Init /\ [][UsbNext]_vars

----------------------------------------------------------------------------
(* Properties *)

\* the Context, whoever owns it
TheContext == (context \o swd \o jtag)[1]

AckErrors == {"AckWait", "AckFault", "AckUnknown"}

\* C1: a read the target answers with ACK OK, then the word w and the parity
\* bit p, returns Ok(w) if p = popcount(w) mod 2 and Err(BadParity) otherwise.
ReadReturnsWordSent ==
    (ret.op = "read_inner" /\ ret.target.ack = AckCodes.OK /\ ret.target.flip = {})
    => IF ret.target.parity = count_ones(ret.target.word) % 2
       THEN ret.kind = "Ok" /\ ret.data = ret.target.word
       ELSE ret.kind = "BadParity"

\* C2: under ACK OK, a word sent with its correct parity bit and with one
\* data bit inverted on the line is answered with Err(BadParity).
SingleBitFlipIsBadParity ==
    (/\ ret.op = "read_inner"
     /\ ret.target.ack = AckCodes.OK
     /\ ret.target.flip # {}
     /\ ret.target.parity = count_ones(ret.target.word) % 2)
    => ret.kind = "BadParity"

\* C3: a transaction that ends in an ACK error has clocked, after the ACK
\* phase and nothing else, exactly 4 bits in which the probe drives the data
\* line low, and returns with the data line in floating-input mode.
AckErrorFlushDrivesFourLowBits ==
    (ret.op \in {"read_inner", "write_inner"} /\ ret.kind \in AckErrors)
    => LET sampled == IF ret.op = "read_inner" THEN 4 ELSE 5
       IN  /\ Len(wire) = 8 + sampled + 4
           /\ \A k \in (8 + sampled + 1)..Len(wire) :
                 /\ wire[k].op = "write_bit"
                 /\ wire[k].mode = "PushPullOutput"
                 /\ wire[k].level = 0
           /\ swd[1].swdio.mode = "FloatingInput"

\* C4: set_clock with hz >= cpu_frequency, on the Context or through either
\* engine, returns false and changes neither the timing state nor any pin.
RejectedClockChangesNothing ==
    [][ (/\ ret.op = "none"
         /\ ret'.op = "set_clock"
         /\ ret'.hz >= TheContext.cpu_frequency)
        => (/\ ret'.value = FALSE
            /\ ~panicked'
            /\ context' = context /\ swd' = swd /\ jtag' = jtag) ]_vars

RejectedClockSeen ==
    /\ ret.op = "set_clock"
    /\ ret.via = "Swd"
    /\ ret.hz = TheContext.cpu_frequency
    /\ ret.value = FALSE
    /\ TheContext.max_frequency = 1000000
    /\ TheContext.swclk.level = 1

\* C5: set_clock with hz < cpu_frequency completes, returns true and sets
\* half_period_ticks to cpu_frequency / hz / 2.
AcceptedClockSetsHalfPeriod ==
    (ret.op = "set_clock" /\ ret.hz < TheContext.cpu_frequency)
    => (/\ ~panicked
        /\ ret.value = TRUE
        /\ TheContext.half_period_ticks
              = (TheContext.cpu_frequency \div ret.hz) \div 2)

\* C6: the Context is in exactly one place: free, in the SWD engine or in
\* the JTAG stub; the two engines never hold it together.
OneOwner ==
    /\ Len(swd) + Len(jtag) <= 1
    /\ Len(context) + Len(swd) + Len(jtag) = 1

\* the JTAG stub holds a Context the SWD engine has clocked and released
HandedFromSwdToJtag ==
    /\ jtag # << >>
    /\ jtag[1].swclk.level = 1
    /\ jtag[1].swclk.mode = "FloatingInput"

\* C7: configure returns true exactly for (Cycles1, NoDataPhase), and changes
\* no pin and no timing state whatever it returns.
ConfigureOnlyCycles1NoDataPhase ==
    [][ (ret.op = "none" /\ ret'.op = "configure")
        => (/\ ret'.value = (ret'.period = "Cycles1"
                             /\ ret'.data_phase = "NoDataPhase")
            /\ ~panicked'
            /\ context' = context /\ swd' = swd /\ jtag' = jtag) ]_vars

ConfigureRejectedSeen ==
    /\ ret.op = "configure"
    /\ ret.period = "Cycles1"
    /\ ret.data_phase = "AlwaysDataPhase"
    /\ ret.value = FALSE

\* the version a report is to be processed and answered with
VersionOf(kind) == IF kind = "DAP1Command" THEN "V1" ELSE "V2"

ChannelOf(kind) == IF kind = "DAP1Command" THEN "dap1" ELSE "dap2"

\* C8: every command report on_usb has finished with, of either variant, was
\* passed to process_command exactly once, with its payload and its version,
\* and was answered on the channel of its version iff the length returned
\* is not zero.
EveryCommandReportProcessedOnce ==
    \A h \in 1..Len(handled) :
       handled[h].kind \in {"DAP1Command", "DAP2Command"}
       => LET mine  == {c \in 1..Len(calls) : calls[c].id = handled[h].id}
              sent  == {r \in 1..Len(replies) : replies[r].id = handled[h].id}
          IN  /\ Cardinality(mine) = 1
              /\ \A c \in mine :
                    /\ calls[c].version = VersionOf(handled[h].kind)
                    /\ calls[c].n = handled[h].n
                    /\ (calls[c].len > 0) = (Cardinality(sent) = 1)
                    /\ Cardinality(sent) <= 1
              /\ \A r \in sent : replies[r].channel = ChannelOf(handled[h].kind)

\* C9: led_blinker and on_usb never run inside one another: at most one
\* handler is running, a task that has started is that handler until it
\* returns, and so at most one command is in flight.
TasksRunToCompletion ==
    /\ Len(active) <= 1
    /\ usb.pc # "idle" => active = << "USBCTRL_IRQ" >>
    /\ led_pc # "idle" => active = << "XIP_IRQ" >>

\* the timer expires while a command is in flight
TimerExpiredDuringCommand ==
    /\ usb.pc = "process"
    /\ "TIMER_IRQ_0" \in pend

\* C10: max_frequency never exceeds cpu_frequency.
MaxFrequencyWithinCpuFrequency ==
    TheContext.max_frequency <= TheContext.cpu_frequency

\* C11 as stated: between the return of pins, sequence, read_inner or
\* write_inner and the next operation, the clock line and the data line are
\* both in floating-input mode.
BusReleasedBetweenOperations ==
    ret.op \in {"pins", "sequence", "read_inner", "write_inner"}
    => (/\ TheContext.swclk.mode = "FloatingInput"
        /\ TheContext.swdio.mode = "FloatingInput")

\* C11: between the return of pins or sequence and the next operation, the
\* clock line and the data line are both in floating-input mode; between the
\* return of read_inner or write_inner and the next operation the clock line
\* is in push-pull-output mode, the engine holding the bus until release.
BusReleasedAfterLineLevelOperation ==
    /\ ret.op \in {"pins", "sequence"}
       => (/\ TheContext.swclk.mode = "FloatingInput"
           /\ TheContext.swdio.mode = "FloatingInput")
    /\ ret.op \in {"read_inner", "write_inner"}
       => TheContext.swclk.mode = "PushPullOutput"

\* sequence has clocked bits out and returned
BusReleasedAfterSequence ==
    /\ ret.op = "sequence"
    /\ Len(wire) > 0
    /\ context[1].swclk.level = 1
    /\ context[1].swclk.mode = "FloatingInput"
    /\ context[1].swdio.mode = "FloatingInput"

\* how a transaction took the ACK: the error it returned, or "Ok" when it
\* went on to the data phase
AckTaken == IF ret.kind \in AckErrors THEN ret.kind ELSE "Ok"

\* C12: read_inner classifies the three ACK bits sampled after the turnaround
\* bit, whatever the turnaround bit is: ACK OK is taken as OK and the data
\* phase entered, every other code gives its error.
ReadAckIgnoresTurnaround ==
    ret.op = "read_inner" => AckTaken = try_ok(ret.target.ack)

\* C13: write_inner classifies exactly the three ACK bits, the 2nd, 3rd and
\* 4th of the 5 bits sampled, whatever the two turnaround bits are.
WriteAckIsTheThreeAckBits ==
    ret.op = "write_inner" => AckTaken = try_ok(ret.target.ack)

\* C14: a read_inner that received ACK OK has clocked 8 trailing bits after
\* the parity bit and returns with the data line in push-pull-output mode at
\* level low.
ReadLeavesDataLineDrivenLow ==
    (/\ ret.op = "read_inner"
     /\ (ret.target.ack = AckCodes.OK \/ ret.kind \in {"Ok", "BadParity"}))
    => (/\ Len(wire) >= 8 + 4 + 33 + 8
        /\ \A k \in 46..53 : wire[k].op = "read_bit"
        /\ swd[1].swdio = [mode |-> "PushPullOutput", level |-> 0])

\* C15: a write_inner of the word w that receives ACK OK drives, the data
\* line being a push-pull output, the 32 bits of w least-significant first,
\* the parity bit popcount(w) mod 2 and 8 low bits, and returns Ok(()); no
\* write_inner returns BadParity.
WriteDrivesWordParityIdle ==
    /\ ret.op = "write_inner" => ret.kind # "BadParity"
    /\ (ret.op = "write_inner" /\ ret.target.ack = AckCodes.OK)
       => (/\ ret.kind = "Ok"
           /\ Len(wire) = 8 + 5 + 32 + 1 + 8
           /\ \A k \in 14..54 :
                 /\ wire[k].op = "write_bit"
                 /\ wire[k].mode = "PushPullOutput"
                 /\ wire[k].level = (CASE k <= 45 -> ret.word[k - 13]
                                       [] k = 46  -> count_ones(ret.word) % 2
                                       [] OTHER   -> 0))

\* the modes of the clock line and of the data line of a Context
LineModes(c) == << c.swclk.mode, c.swdio.mode >>

\* C16: Swd::new makes the clock line and the data line push-pull outputs;
\* Swd::release returns the Context with both in floating-input mode,
\* whatever ran in between; Jtag::new and Jtag::release hand the Context on
\* with every pin as it was, so a Jtag::new that follows Swd::release starts
\* with both lines in floating-input mode.
EngineLifecyclePinModes ==
    [][ ret.op = "none"
        => (/\ ret'.op = "Swd::new"
               => LineModes(swd'[1]) = << "PushPullOutput", "PushPullOutput" >>
            /\ ret'.op = "Swd::release"
               => LineModes(context'[1]) = << "FloatingInput", "FloatingInput" >>
            /\ ret'.op = "Jtag::new"
               => (/\ jtag'[1] = context[1]
                   /\ (LineModes(context[1]) = << "FloatingInput", "FloatingInput" >>
                       => LineModes(jtag'[1]) = << "FloatingInput", "FloatingInput" >>))
            /\ ret'.op = "Jtag::release"
               => context'[1] = jtag[1]) ]_vars

\* the SWD engine is released, both lines floating, the clock line last
\* driven high
ReleasedAfterTransactions ==
    /\ ret.op = "Swd::release"
    /\ LineModes(context[1]) = << "FloatingInput", "FloatingInput" >>
    /\ context[1].swclk.level = 1

\* the line of a Context a flag of swj::Pins names
LineOf(c, f) ==
    CASE f = "SWCLK" -> c.swclk
      [] f = "SWDIO" -> c.swdio
      [] OTHER       -> c.nreset

\* C17: during the settle delay of pins a masked clock or data line is a
\* push-pull output at the requested level, a masked reset line is disabled
\* if requested high and a push-pull output at low if requested low, and an
\* unmasked line is as it was before the call (pins does not drive it); on
\* return all three lines are in floating-input mode and the value returned
\* is the set of lines sampled high.
PinsDrivesMaskedThenFloatsAll ==
    [][ (ret.op = "none" /\ ret'.op = "pins")
        => (/\ \A f \in {"SWCLK", "SWDIO"} :
                  f \in ret'.mask
                  => LineOf(ret'.settle, f)
                        = [mode |-> "PushPullOutput",
                           level |-> IF f \in ret'.output THEN 1 ELSE 0]
            /\ "NRESET" \in ret'.mask
               => IF "NRESET" \in ret'.output
                  THEN ret'.settle.nreset.mode = "FloatingDisabled"
                  ELSE ret'.settle.nreset
                          = [mode |-> "PushPullOutput", level |-> 0]
            /\ \A f \in PinNames \ ret'.mask :
                  LineOf(ret'.settle, f) = LineOf(context[1], f)
            /\ \A f \in PinNames : LineOf(context'[1], f).mode = "FloatingInput"
            /\ ret'.value = ret'.line
            /\ ret'.delay = context[1].cycles_per_us * ret'.wait_us) ]_vars

\* pins asked to release the reset line and drive the clock line high, the
\* reset line then read back high
PinsReleasedReset ==
    /\ ret.op = "pins"
    /\ ret.mask = {"SWCLK", "NRESET"}
    /\ ret.output = {"SWCLK", "NRESET"}
    /\ ret.settle.nreset.mode = "FloatingDisabled"
    /\ ret.settle.swclk = [mode |-> "PushPullOutput", level |-> 1]
    /\ "NRESET" \in ret.value
    /\ context[1].nreset.mode = "FloatingInput"

\* bit k (from 0) of the data of sequence, least-significant first per byte
SequenceBitAt(data, k) == (data[(k \div 8) + 1] \div (2 ^ (k % 8))) % 2

\* C18: sequence clocks out exactly min(bits, 8 * len(data)) bits, the bits
\* of each byte least-significant first in byte order, each as: set the data
\* level, clock low, half-period delay, clock high, half-period delay; and
\* returns with the clock line and the data line in floating-input mode.
SequenceClocksMinBitsLsbFirst ==
    ret.op = "sequence"
    => LET n == IF ret.bits < 8 * Len(ret.data)
                THEN ret.bits ELSE 8 * Len(ret.data)
           out(level) == [mode |-> "PushPullOutput", level |-> level]
           half == [ev |-> "delay", ticks |-> context[1].half_period_ticks]
       IN  /\ Len(wire) = 5 * n
           /\ \A k \in 0..(n - 1) :
                 /\ wire[5 * k + 1] = [ev |-> "swdio", mode |-> "PushPullOutput",
                                       level |-> SequenceBitAt(ret.data, k)]
                 /\ wire[5 * k + 2] = [ev |-> "swclk", mode |-> "PushPullOutput",
                                       level |-> 0]
                 /\ wire[5 * k + 3] = half
                 /\ wire[5 * k + 4] = [ev |-> "swclk", mode |-> "PushPullOutput",
                                       level |-> 1]
                 /\ wire[5 * k + 5] = half
           /\ LineModes(context[1]) = << "FloatingInput", "FloatingInput" >>

\* sequence stops in the middle of the second byte, 0x9E
SequenceStoppedMidByte ==
    /\ ret.op = "sequence"
    /\ ret.data = << 231, 158 >>
    /\ ret.bits = 13
    /\ Len(wire) = 5 * 13
    /\ context[1].half_period_ticks = 625

\* C19: whatever the transactions before it and their outcomes, a
\* transaction drives the 8 bits of its request, least-significant first,
\* with the data line and the clock line in push-pull-output mode.
RequestDrivenAsOutput ==
    ret.op \in {"read_inner", "write_inner"}
    => LET req == make_request(ret.apndp,
                               IF ret.op = "read_inner" THEN "R" ELSE "W",
                               ret.a)
       IN  /\ Len(wire) >= 8
           /\ \A k \in 1..8 :
                 wire[k] = [op |-> "write_bit", mode |-> "PushPullOutput",
                            level |-> (req \div (2 ^ (k - 1))) % 2,
                            clk |-> "PushPullOutput"]

\* a transaction that found the data line in floating-input mode, as a read
\* or an ACK error leaves it, and ended in an ACK error itself
RequestDrivenAfterError ==
    /\ ret.op = "write_inner"
    /\ ret.entry = "FloatingInput"
    /\ ret.kind \in AckErrors
    /\ wire[1].mode = "PushPullOutput"

\* C20 as stated: control_in accepts a vendor request with the identifying
\* request value (and index 7) with the descriptor, rejects every other
\* vendor request, and leaves every other request untouched.
EveryOtherVendorRequestRejected ==
    xfer # << >>
    => LET req == xfer[1].req
       IN  xfer[1].response.done
              = (IF req.request_type # "Vendor" THEN "nothing"
                 ELSE IF req.request = VENDOR_ID /\ req.index = 7
                      THEN "accept_with_static"
                      ELSE "reject")

\* C20: control_in accepts a vendor request with the identifying request
\* value 0x42 and index 7 with the whole descriptor, rejects a vendor
\* request with that value and another index, and leaves every other
\* request, vendor or not, untouched.
OnlyIdentifyingRequestAnswered ==
    xfer # << >>
    => LET req == xfer[1].req
       IN  xfer[1].response
              = (IF req.request_type = "Vendor" /\ req.request = VENDOR_ID
                 THEN IF req.index = 7
                      THEN [done |-> "accept_with_static", len |-> 168]
                      ELSE [done |-> "reject", len |-> 0]
                 ELSE [done |-> "nothing", len |-> 0])

\* the identifying request with index 8, value 7, is rejected
IdentifyingRequestWrongIndex ==
    /\ xfer # << >>
    /\ xfer[1].req = [request_type |-> "Vendor", request |-> 66, index |-> 8,
                      value |-> 7]
    /\ xfer[1].response.done = "reject"

====
